---------------------------- MODULE Spec2Model ----------------------------
(***************************************************************************)
(* Inventory ledger of doodle.js: the Google-Sheets tables "File Meds",    *)
(* "Closet Meds", "Angie Stash", "Past Medication" and "Activity Records"  *)
(* and the request handlers that read and mutate them.                     *)
(*                                                                         *)
(* A JavaScript string is a sequence of one-character strings.  A sheet is *)
(* a sequence of rows, row 1 being the header row; a row is a tuple of     *)
(* cells, a cell a string, the empty cell being <<>>.  A JavaScript number *)
(* that may be NaN is <<n>> or <<>> (NaN).                                 *)
(***************************************************************************)
EXTENDS Integers, Sequences, FiniteSets, TLC

VARIABLES db, form, last, nops

vars == <<db, form, last, nops>>

---------------------------------------------------------------------------
(* Bounds of the model.                                                    *)

MaxOps == 3

MaxRows == 3

MaxPicks == 2

---------------------------------------------------------------------------
(* JavaScript strings.                                                     *)

UpperCase == <<"A","B","C","D","E","F","G","H","I","J","K","L","M",
               "N","O","P","Q","R","S","T","U","V","W","X","Y","Z">>

LowerCase == <<"a","b","c","d","e","f","g","h","i","j","k","l","m",
               "n","o","p","q","r","s","t","u","v","w","x","y","z">>

UpperToLower ==
    [c \in {UpperCase[i] : i \in 1..26} |->
        LowerCase[CHOOSE i \in 1..26 : UpperCase[i] = c]]

LowerChar(c) == IF c \in DOMAIN UpperToLower THEN UpperToLower[c] ELSE c

\* String.prototype.toLowerCase
toLowerCase(s) == [i \in 1..Len(s) |-> LowerChar(s[i])]

\* /\s/ restricted to the blank
IsSpace(c) == c = " "

RECURSIVE TrimLeft(_)
TrimLeft(s) == IF s # <<>> /\ IsSpace(Head(s)) THEN TrimLeft(Tail(s)) ELSE s

RECURSIVE TrimRight(_)
TrimRight(s) ==
    IF s # <<>> /\ IsSpace(s[Len(s)]) THEN TrimRight(SubSeq(s, 1, Len(s) - 1)) ELSE s

\* String.prototype.trim
trim(s) == TrimRight(TrimLeft(s))

\* String.prototype.startsWith
startsWith(s, p) == Len(s) >= Len(p) /\ SubSeq(s, 1, Len(p)) = p

\* String.prototype.includes
includes(s, sub) ==
    \E i \in 0..(Len(s) - Len(sub)) : SubSeq(s, i + 1, i + Len(sub)) = sub

\* String.prototype.substring(n)
substring(s, n) == SubSeq(s, n + 1, Len(s))

\* the dose in lower case with its whitespace kept
normalizeDoseCaseOnly(dose) == toLowerCase(dose)

\* (dose || "").replace(/\s+/g, "").toLowerCase()
normalizeDose(dose) == toLowerCase(SelectSeq(dose, LAMBDA c : ~IsSpace(c)))

---------------------------------------------------------------------------
(* JavaScript numbers: parseInt, and the text a sheet returns for a number *)
(* written to a cell.                                                      *)

Digits == <<"0","1","2","3","4","5","6","7","8","9">>

DigitValues ==
    [c \in {Digits[i] : i \in 1..10} |-> (CHOOSE i \in 1..10 : Digits[i] = c) - 1]

IsDigit(c) == c \in DOMAIN DigitValues

DigitVal(c) == DigitValues[c]

RECURSIVE DigitRun(_, _, _)
\* <<value, count>> of the longest run of digits at the head of s
DigitRun(s, acc, n) ==
    IF s # <<>> /\ IsDigit(Head(s))
    THEN DigitRun(Tail(s), 10 * acc + DigitVal(Head(s)), n + 1)
    ELSE <<acc, n>>

\* parseInt(text): leading blanks skipped, an optional sign, then digits up to
\* the first other character; NaN (<<>>) when there is no digit
parseInt(text) ==
    LET t == TrimLeft(text)
        neg == t # <<>> /\ Head(t) = "-"
        u == IF t # <<>> /\ Head(t) \in {"-", "+"} THEN Tail(t) ELSE t
        r == DigitRun(u, 0, 0)
    IN IF r[2] = 0 THEN <<>> ELSE IF neg THEN <<0 - r[1]>> ELSE <<r[1]>>

\* x || 0 for a number x: NaN and 0 are falsy
OrZero(x) == IF x = <<>> THEN 0 ELSE x[1]

RECURSIVE NatText(_)
NatText(n) ==
    IF n < 10 THEN <<Digits[n + 1]>> ELSE NatText(n \div 10) \o <<Digits[(n % 10) + 1]>>

\* the text of a number cell; NaN is sent as null, which writes nothing
NumText(x) ==
    IF x = <<>> THEN <<>>
    ELSE IF x[1] < 0 THEN <<"-">> \o NatText(0 - x[1]) ELSE NatText(x[1])

---------------------------------------------------------------------------
(* The spreadsheet and the Sheets API calls the program issues.            *)
(*                                                                         *)
(* A request runs over a record st: db (the sheets), calls (the API calls  *)
(* issued so far, each with the sheet row it addresses, 0 for none, and    *)
(* the batch item it was issued for), exc (an exception is propagating),   *)
(* fail (the number of the call that fails, 0 for none), cur (the batch    *)
(* item being processed).  A failed call changes nothing.                  *)

SheetNames == {"File Meds", "Closet Meds", "Angie Stash", "Past Medication",
               "Activity Records", "Location Catalog"}

Width(sheet) ==
    CASE sheet \in {"File Meds", "Closet Meds"} -> 4
      [] sheet \in {"Angie Stash", "Past Medication"} -> 3
      [] sheet = "Activity Records" -> 6
      [] OTHER -> 1

BlankRow(sheet) == [i \in 1..Width(sheet) |-> <<>>]

\* row.length as values.get reports it: trailing empty cells are dropped
RowLength(row) ==
    IF \E i \in 1..Len(row) : row[i] # <<>>
    THEN CHOOSE i \in 1..Len(row) :
            row[i] # <<>> /\ \A j \in (i + 1)..Len(row) : row[j] = <<>>
    ELSE 0

RECURSIVE DropBlankTail(_)
\* a sheet holds no trailing blank rows
DropBlankTail(rows) ==
    IF rows # <<>> /\ RowLength(rows[Len(rows)]) = 0
    THEN DropBlankTail(SubSeq(rows, 1, Len(rows) - 1))
    ELSE rows

Failing(st) == Len(st.calls) + 1 = st.fail

Note(st, api, sheet, r, ok) ==
    [st EXCEPT !.calls = Append(@, [api |-> api, sheet |-> sheet, row |-> r,
                                     ok |-> ok, item |-> st.cur])]

\* a call whose rejection is thrown to the caller
Call(st, api, sheet, r, rows) ==
    IF st.exc THEN st
    ELSE IF Failing(st) THEN [Note(st, api, sheet, r, FALSE) EXCEPT !.exc = TRUE]
    ELSE [Note(st, api, sheet, r, TRUE) EXCEPT !.db[sheet] = DropBlankTail(rows)]

\* try { ... } catch (error) { console.error(...) }
Caught(st) == [st EXCEPT !.exc = FALSE]

\* sheets.spreadsheets.values.append
valuesAppend(st, sheet, row) == Call(st, "append", sheet, 0, Append(st.db[sheet], row))

\* rows padded with blank rows up to row r
PadTo(rows, sheet, r) ==
    [i \in 1..(IF r > Len(rows) THEN r ELSE Len(rows)) |->
        IF i <= Len(rows) THEN rows[i] ELSE BlankRow(sheet)]

\* sheets.spreadsheets.values.update of one cell with a number (null for NaN)
valuesUpdateCell(st, sheet, col, r, x) ==
    Call(st, "update", sheet, r,
         IF x = <<>> THEN st.db[sheet]
         ELSE [PadTo(st.db[sheet], sheet, r) EXCEPT ![r][col] = NumText(x)])

\* sheets.spreadsheets.values.update of one whole row
valuesUpdateRow(st, sheet, r, row) ==
    Call(st, "update", sheet, r, [PadTo(st.db[sheet], sheet, r) EXCEPT ![r] = row])

\* rows without row r (1-based)
RemoveAt(rows, r) ==
    IF r \in 1..Len(rows)
    THEN SubSeq(rows, 1, r - 1) \o SubSeq(rows, r + 1, Len(rows))
    ELSE rows

\* batchUpdate deleteDimension ROWS [startIndex, endIndex), zero-based
deleteDimension(st, sheet, startIndex, endIndex) ==
    Call(st, "delete", sheet, endIndex,
         IF endIndex = startIndex + 1 THEN RemoveAt(st.db[sheet], endIndex)
         ELSE st.db[sheet])

\* batchUpdate insertDimension ROWS [startIndex, endIndex), zero-based
insertDimension(st, sheet, startIndex, endIndex) ==
    Call(st, "insert", sheet, startIndex + 1,
         LET rows == PadTo(st.db[sheet], sheet, startIndex)
         IN SubSeq(rows, 1, startIndex) \o <<BlankRow(sheet)>>
                \o SubSeq(rows, startIndex + 1, Len(rows)))

\* the order sortRange puts two cells in: text case-insensitively, character
\* by character; an empty cell after every text
SortAlphabet == <<" ", "+", "-">> \o Digits \o LowerCase

SortRanks ==
    [c \in {SortAlphabet[i] : i \in 1..Len(SortAlphabet)} |->
        CHOOSE i \in 1..Len(SortAlphabet) : SortAlphabet[i] = c]

CharRank(c) == IF LowerChar(c) \in DOMAIN SortRanks THEN SortRanks[LowerChar(c)] ELSE 0

RECURSIVE TextLess(_, _)
TextLess(a, b) ==
    IF b = <<>> THEN FALSE
    ELSE IF a = <<>> THEN TRUE
    ELSE IF CharRank(Head(a)) # CharRank(Head(b)) THEN CharRank(Head(a)) < CharRank(Head(b))
    ELSE TextLess(Tail(a), Tail(b))

CellLess(a, b) ==
    IF a = <<>> THEN FALSE ELSE IF b = <<>> THEN TRUE ELSE TextLess(a, b)

\* sortSpecs in the other order: column A ascending, then column C ascending
RowLessNameFirst(r1, r2) ==
    CellLess(r1[1], r2[1]) \/ (~CellLess(r2[1], r1[1]) /\ CellLess(r1[3], r2[3]))

\* sortSpecs: column C ascending, then column A ascending
RowLess(r1, r2) ==
    CellLess(r1[3], r2[3]) \/ (~CellLess(r2[3], r1[3]) /\ CellLess(r1[1], r2[1]))

RECURSIVE InsertSorted(_, _)
InsertSorted(sorted, row) ==
    IF sorted = <<>> THEN <<row>>
    ELSE IF RowLess(row, Head(sorted)) THEN <<row>> \o sorted
    ELSE <<Head(sorted)>> \o InsertSorted(Tail(sorted), row)

RECURSIVE SortRows(_)
SortRows(rows) ==
    IF rows = <<>> THEN <<>>
    ELSE InsertSorted(SortRows(SubSeq(rows, 1, Len(rows) - 1)), rows[Len(rows)])

\* batchUpdate sortRange over rows 2..rowCount, columns A-D
sortRange(st, sheet) ==
    Call(st, "sort", sheet, 0,
         IF st.db[sheet] = <<>> THEN <<>>
         ELSE <<Head(st.db[sheet])>> \o SortRows(Tail(st.db[sheet])))

---------------------------------------------------------------------------
(* Utilities of doodle.js.  A function that awaits API calls and returns a *)
(* value is two operators: f(st, ...) is the value and fCalls(st, ...) the *)
(* request record after its calls.                                         *)

Marker == <<"s","p","a","r","k","l","e","s","+","+">>

StashLabel == <<"A","n","g","i","e"," ","S","t","a","s","h">>

\* the clock reading logActivity formats; its value plays no part
Timestamp == <<"t">>

\* a read whose rejection the function catches itself
ReadCalls(st, api, sheet) ==
    IF st.exc THEN st ELSE Note(st, api, sheet, 0, ~Failing(st))

\* getSheetIdByName: the sheet's id ("null" when spreadsheets.get fails)
getSheetIdByName(st, sheetName) ==
    IF Failing(st) \/ sheetName \notin SheetNames THEN "null" ELSE sheetName

getSheetIdByNameCalls(st, sheetName) == ReadCalls(st, "meta", sheetName)

Throw(st) == IF st.exc THEN st ELSE [st EXCEPT !.exc = TRUE]

\* logActivity: a row inserted under the header, then written
logActivity(st, action, name, dose, location, quantity) ==
    LET sheetId == getSheetIdByName(st, "Activity Records")
        s1 == getSheetIdByNameCalls(st, "Activity Records")
    IN IF st.exc THEN st
       ELSE IF sheetId = "null" THEN Throw(s1)
       ELSE valuesUpdateRow(
                insertDimension(s1, "Activity Records", 1, 2),
                "Activity Records", 2,
                <<Timestamp, action, name, dose, location, quantity>>)

\* addToPastMedication
addToPastMedication(st, name, dose, location) ==
    IF st.exc THEN st
    ELSE Caught(valuesAppend(st, "Past Medication", <<name, dose, location>>))

\* rowsToRemove with the zero-based index i pushed in place of i + 1
PastRowsToRemoveZeroBased(rows, name, dose, location) ==
    SelectSeq([i \in 1..Len(rows) |-> i - 1],
              LAMBDA i : /\ toLowerCase(rows[i + 1][1]) = toLowerCase(name)
                         /\ toLowerCase(rows[i + 1][2]) = toLowerCase(dose)
                         /\ toLowerCase(rows[i + 1][3]) = toLowerCase(location))

\* rowsToRemove of removeFromPastMedication: the sheet rows (1-based, the
\* header being row 1) whose three cells equal the key up to letter case
PastRowsToRemove(rows, name, dose, location) ==
    SelectSeq([i \in 1..Len(rows) |-> i],
              LAMBDA i : /\ toLowerCase(rows[i][1]) = toLowerCase(name)
                         /\ toLowerCase(rows[i][2]) = toLowerCase(dose)
                         /\ toLowerCase(rows[i][3]) = toLowerCase(location))

RECURSIVE InsertDescending(_, _)
InsertDescending(sorted, x) ==
    IF sorted = <<>> THEN <<x>>
    ELSE IF x > Head(sorted) THEN <<x>> \o sorted
    ELSE <<Head(sorted)>> \o InsertDescending(Tail(sorted), x)

RECURSIVE SortAscending(_)
SortAscending(xs) ==
    IF xs = <<>> THEN <<>>
    ELSE LET m == CHOOSE i \in 1..Len(xs) : \A j \in 1..Len(xs) : xs[i] <= xs[j]
         IN <<xs[m]>> \o SortAscending(RemoveAt(xs, m))

RECURSIVE SortDescending(_)
\* rowsToRemove.sort((a, b) => b - a)
SortDescending(xs) ==
    IF xs = <<>> THEN <<>>
    ELSE InsertDescending(SortDescending(Tail(xs)), Head(xs))

RECURSIVE DeletePastRows(_, _)
\* for (const rowIndex of rowsToRemove) deleteDimension(rowIndex - 1, rowIndex)
DeletePastRows(st, rowsToRemove) ==
    IF rowsToRemove = <<>> THEN st
    ELSE DeletePastRows(
            deleteDimension(st, "Past Medication",
                            Head(rowsToRemove) - 1, Head(rowsToRemove)),
            Tail(rowsToRemove))

\* removeFromPastMedication
removeFromPastMedication(st, name, dose, location) ==
    LET readOk == ~Failing(st)
        s1 == ReadCalls(st, "get", "Past Medication")
        rows == st.db["Past Medication"]
        rowsToRemove == SortDescending(PastRowsToRemove(rows, name, dose, location))
        sheetId == getSheetIdByName(s1, "Past Medication")
        s2 == getSheetIdByNameCalls(s1, "Past Medication")
    IN IF st.exc THEN st
       ELSE IF ~readOk \/ rows = <<>> \/ rowsToRemove = <<>> THEN s1
       ELSE IF sheetId = "null" THEN s2
       ELSE Caught(DeletePastRows(s2, rowsToRemove))

\* getSheetData: the rows, [] when the read fails
getSheetData(st, sheetName) == IF Failing(st) THEN <<>> ELSE st.db[sheetName]

getSheetDataCalls(st, sheetName) == ReadCalls(st, "get", sheetName)

\* sortSheetByLocation
sortSheetByLocation(st, sheetName) ==
    LET metaOk == ~Failing(st)
        s1 == ReadCalls(st, "meta", sheetName)
    IN IF st.exc THEN st
       ELSE IF ~metaOk THEN s1
       ELSE Caught(sortRange(s1, sheetName))

\* getLocationCatalogOrder: column A below the header, blanks dropped
getLocationCatalogOrder(st) ==
    LET data == getSheetData(st, "Location Catalog")
    IN SelectSeq([i \in 1..(IF data = <<>> THEN 0 ELSE Len(data) - 1) |-> data[i + 1][1]],
                 LAMBDA loc : loc # <<>>)

getLocationCatalogOrderCalls(st) == getSheetDataCalls(st, "Location Catalog")

\* the items getFilteredData pushes for one sheet's data
SheetItems(sheetName, data) ==
    LET idx == SelectSeq([i \in 1..(IF data = <<>> THEN 0 ELSE Len(data) - 1) |-> i],
                         LAMBDA i : RowLength(data[i + 1]) >= 4)
    IN [k \in 1..Len(idx) |->
          [sheetName |-> sheetName,
           rowIndex |-> (idx[k] - 1) + 2,
           name |-> data[idx[k] + 1][1],
           dose |-> data[idx[k] + 1][2],
           location |-> data[idx[k] + 1][3],
           quantity |-> data[idx[k] + 1][4]]]

\* getFilteredData
getFilteredData(st, searchName) ==
    LET s1 == getSheetDataCalls(st, "File Meds")
        allData == SheetItems("File Meds", getSheetData(st, "File Meds"))
                    \o SheetItems("Closet Meds", getSheetData(s1, "Closet Meds"))
    IN IF searchName = <<>> THEN <<>>
       ELSE SelectSeq(allData,
                      LAMBDA item : includes(toLowerCase(item.name), toLowerCase(searchName)))

getFilteredDataCalls(st, searchName) ==
    getSheetDataCalls(getSheetDataCalls(st, "File Meds"), "Closet Meds")

\* the marker test as an equality with the marker in place of a prefix test
isAngieModeExact(name) == name = Marker

isAngieMode(name) == startsWith(name, Marker)

stripPlusPlus(name) ==
    IF startsWith(name, Marker) THEN substring(name, Len(Marker)) ELSE name

\* getAngiesStashFiltered: the rows are filtered first and numbered after
getAngiesStashFiltered(st, searchName) ==
    LET data == getSheetData(st, "Angie Stash")
        kept == IF Len(data) < 2 THEN <<>>
                ELSE SelectSeq(Tail(data),
                               LAMBDA row : includes(toLowerCase(row[1]), toLowerCase(searchName)))
    IN [idx \in 1..Len(kept) |->
          [sheetName |-> "Angie Stash",
           rowIndex |-> (idx - 1) + 2,
           name |-> kept[idx][1],
           dose |-> kept[idx][2],
           location |-> StashLabel,
           quantity |-> IF kept[idx][3] = <<>> THEN <<"0">> ELSE kept[idx][3]]]

getAngiesStashFilteredCalls(st, searchName) == getSheetDataCalls(st, "Angie Stash")

\* getPastMedicationFiltered
getPastMedicationFiltered(st, searchName, angieMode) ==
    LET data == getSheetData(st, "Past Medication")
        kept == IF Len(data) < 2 THEN <<>>
                ELSE SelectSeq(Tail(data),
                        LAMBDA row :
                            /\ includes(toLowerCase(row[1]), toLowerCase(searchName))
                            /\ (toLowerCase(trim(row[3])) = toLowerCase(StashLabel)) = angieMode)
    IN [idx \in 1..Len(kept) |->
          [sheetName |-> "Past Medication",
           rowIndex |-> (idx - 1) + 2,
           name |-> kept[idx][1],
           dose |-> kept[idx][2],
           location |-> kept[idx][3],
           quantity |-> <<"0">>]]

getPastMedicationFilteredCalls(st, searchName, angieMode) ==
    getSheetDataCalls(st, "Past Medication")

---------------------------------------------------------------------------
(* The request handlers.  Each runs over a request record from Begin and   *)
(* leaves in run the sheets before the first batch item and after every    *)
(* item it finished.                                                       *)

Begin(sheets, fail) ==
    [db |-> sheets, calls |-> <<>>, exc |-> FALSE, fail |-> fail, cur |-> 0,
     run |-> <<sheets>>]

\* the end of one pass of a handler's for loop
EndItem(st) == IF st.exc THEN st ELSE [st EXCEPT !.run = Append(@, st.db)]

\* app.get("/search"): the items of the update form
SearchForm(st, name) ==
    LET s1 == getLocationCatalogOrderCalls(st)
    IN IF isAngieMode(name) THEN getAngiesStashFiltered(s1, stripPlusPlus(name))
       ELSE getFilteredData(s1, stripPlusPlus(name))

SearchCalls(st, name) ==
    LET s1 == getLocationCatalogOrderCalls(st)
    IN IF isAngieMode(name) THEN getAngiesStashFilteredCalls(s1, stripPlusPlus(name))
       ELSE getFilteredDataCalls(s1, stripPlusPlus(name))

\* app.get("/quick-add"): the current items, then the past items
QuickAddCurrent(st, name) ==
    LET s1 == getLocationCatalogOrderCalls(st)
    IN IF isAngieMode(name) THEN getAngiesStashFiltered(s1, stripPlusPlus(name))
       ELSE getFilteredData(s1, stripPlusPlus(name))

QuickAddPast(st, name) ==
    LET s1 == getLocationCatalogOrderCalls(st)
        s2 == IF isAngieMode(name) THEN getAngiesStashFilteredCalls(s1, stripPlusPlus(name))
              ELSE getFilteredDataCalls(s1, stripPlusPlus(name))
    IN getPastMedicationFiltered(s2, stripPlusPlus(name), isAngieMode(name))

QuickAddCalls(st, name) ==
    LET s1 == getLocationCatalogOrderCalls(st)
        s2 == IF isAngieMode(name) THEN getAngiesStashFilteredCalls(s1, stripPlusPlus(name))
              ELSE getFilteredDataCalls(s1, stripPlusPlus(name))
    IN getPastMedicationFilteredCalls(s2, stripPlusPlus(name), isAngieMode(name))

\* the sheet the location routes a new row to
TargetSheet(location) ==
    IF includes(toLowerCase(location), <<"c","l","o","s","e","t">>)
    THEN "Closet Meds" ELSE "File Meds"

\* angieData.find(...) of the typed-marker branch
FindExistingMed(angieData, cleanName, dose) ==
    SelectSeq(angieData,
              LAMBDA med : /\ toLowerCase(med.name) = toLowerCase(cleanName)
                           /\ toLowerCase(med.dose) = toLowerCase(dose))

\* app.post("/quick-add-update"), the typed-marker branch of one item
QuickAddAngie(st, item, addQty) ==
    LET cleanName == stripPlusPlus(item.name)
        found == FindExistingMed(getAngiesStashFiltered(st, cleanName), cleanName, item.dose)
        s1 == getAngiesStashFilteredCalls(st, cleanName)
        s2 == IF found # <<>>
              THEN valuesUpdateCell(s1, "Angie Stash", 3, found[1].rowIndex,
                                    <<OrZero(parseInt(found[1].quantity)) + addQty>>)
              ELSE valuesAppend(s1, "Angie Stash", <<cleanName, item.dose, NumText(<<addQty>>)>>)
    IN logActivity(s2, <<"A","D","D">>, cleanName, item.dose, StashLabel, NumText(<<addQty>>))

\* the Past Medication branch routing every item by the location submitted
QuickAddPastItemByLocation(st, item, addQty) ==
    LET s1 == removeFromPastMedication(st, item.name, item.dose, item.originalLocation)
        targetSheet == TargetSheet(item.location)
    IN logActivity(
           sortSheetByLocation(
               valuesAppend(s1, targetSheet,
                            <<item.name, item.dose, item.location, NumText(<<addQty>>)>>),
               targetSheet),
           <<"A","D","D">>, item.name, item.dose, item.location, NumText(<<addQty>>))

\* app.post("/quick-add-update"), the Past Medication branch of one item
QuickAddPastItem(st, item, addQty) ==
    LET isAngiePast == toLowerCase(trim(item.originalLocation)) = toLowerCase(StashLabel)
        s1 == removeFromPastMedication(st, item.name, item.dose, item.originalLocation)
        targetSheet == TargetSheet(item.location)
    IN IF isAngiePast
       THEN logActivity(
                valuesAppend(s1, "Angie Stash", <<item.name, item.dose, NumText(<<addQty>>)>>),
                <<"A","D","D">>, item.name, item.dose, StashLabel, NumText(<<addQty>>))
       ELSE logActivity(
                sortSheetByLocation(
                    valuesAppend(s1, targetSheet,
                                 <<item.name, item.dose, item.location, NumText(<<addQty>>)>>),
                    targetSheet),
                <<"A","D","D">>, item.name, item.dose, item.location, NumText(<<addQty>>))

\* app.post("/quick-add-update"), the current-stock update of one item
QuickAddCurrentItem(st, item, addQty) ==
    LET newQty == OrZero(parseInt(item.quantity)) + addQty
        s1 == IF item.sheetName = "Angie Stash"
              THEN valuesUpdateCell(st, "Angie Stash", 3, item.rowIndex, <<newQty>>)
              ELSE valuesUpdateCell(st, item.sheetName, 4, item.rowIndex, <<newQty>>)
    IN logActivity(s1, <<"A","D","D">>, item.name, item.dose, item.location,
                   NumText(<<addQty>>))

\* one pass of the loop of app.post("/quick-add-update")
QuickAddItem(st, item) ==
    LET addQty == OrZero(parseInt(item.addQty))
    IN IF item.name = <<>> \/ item.addQty = <<>> THEN st
       ELSE IF addQty <= 0 THEN st
       ELSE IF isAngieMode(item.name) THEN QuickAddAngie(st, item, addQty)
       ELSE IF item.sheetName = "Past Medication" THEN QuickAddPastItem(st, item, addQty)
       ELSE QuickAddCurrentItem(st, item, addQty)

RECURSIVE QuickAddLoop(_, _, _)
QuickAddLoop(st, items, i) ==
    IF i > Len(items) \/ st.exc THEN st
    ELSE QuickAddLoop(EndItem(QuickAddItem([st EXCEPT !.cur = i], items[i])), items, i + 1)

\* app.post("/quick-add-update")
quickAddUpdate(st, items) == QuickAddLoop(st, items, 1)

\* Math.max(0, currentQty - qtyToTake)
NewQty(currentQty, qtyToTake) ==
    IF currentQty - qtyToTake > 0 THEN currentQty - qtyToTake ELSE 0

\* app.post("/update"), the newQty <= 0 branch of one item
UpdateArchive(st, item) ==
    LET s1 == addToPastMedication(st, item.name, item.dose, item.location)
        sheetId == getSheetIdByName(s1, item.sheetName)
        s2 == getSheetIdByNameCalls(s1, item.sheetName)
    IN IF st.exc THEN st
       ELSE IF sheetId = "null" THEN s2
       ELSE Caught(deleteDimension(s2, sheetId, item.rowIndex - 1, item.rowIndex))

\* the quantity write with the stash test inverted
UpdateQuantityInverted(st, item, newQty) ==
    IF st.exc THEN st
    ELSE IF item.sheetName # "Angie Stash"
    THEN Caught(valuesUpdateCell(st, "Angie Stash", 3, item.rowIndex, <<newQty>>))
    ELSE Caught(valuesUpdateCell(st, item.sheetName, 4, item.rowIndex, <<newQty>>))

\* app.post("/update"), the quantity write of one item
UpdateQuantity(st, item, newQty) ==
    IF st.exc THEN st
    ELSE IF item.sheetName = "Angie Stash"
    THEN Caught(valuesUpdateCell(st, "Angie Stash", 3, item.rowIndex, <<newQty>>))
    ELSE Caught(valuesUpdateCell(st, item.sheetName, 4, item.rowIndex, <<newQty>>))

\* one pass of the loop with the store mutated first and the record logged after
UpdateItemMutateFirst(st, item) ==
    LET qtyToTake == OrZero(parseInt(item.qty))
        newQty == NewQty(OrZero(parseInt(item.quantity)), qtyToTake)
        s1 == IF newQty <= 0 THEN UpdateArchive(st, item)
              ELSE UpdateQuantity(st, item, newQty)
    IN IF item.rowIndex = 0 THEN st
       ELSE IF qtyToTake = 0 THEN st
       ELSE logActivity(s1, <<"R","E","M","O","V","E">>, item.name, item.dose,
                        item.location, NumText(<<qtyToTake>>))

\* one pass of the loop of app.post("/update")
UpdateItem(st, item) ==
    LET qtyToTake == OrZero(parseInt(item.qty))
        newQty == NewQty(OrZero(parseInt(item.quantity)), qtyToTake)
        s1 == logActivity(st, <<"R","E","M","O","V","E">>, item.name, item.dose,
                          item.location, NumText(<<qtyToTake>>))
    IN IF item.rowIndex = 0 THEN st
       ELSE IF qtyToTake = 0 THEN st
       ELSE IF newQty <= 0 THEN UpdateArchive(s1, item)
       ELSE UpdateQuantity(s1, item, newQty)

RECURSIVE UpdateLoop(_, _, _)
UpdateLoop(st, items, i) ==
    IF i > Len(items) \/ st.exc THEN st
    ELSE UpdateLoop(EndItem(UpdateItem([st EXCEPT !.cur = i], items[i])), items, i + 1)

\* app.post("/update")
update(st, items) == UpdateLoop(st, items, 1)

\* the first data row of a sheet matching the new medication, 0 for none
\* (findIndex over data.slice(1), plus one)
FindMedication(data, name, dose, location) ==
    LET hits == SelectSeq([i \in 1..(IF data = <<>> THEN 0 ELSE Len(data) - 1) |-> i],
                    LAMBDA i : /\ toLowerCase(data[i + 1][1]) = toLowerCase(name)
                               /\ normalizeDose(data[i + 1][2]) = normalizeDose(dose)
                               /\ toLowerCase(data[i + 1][3]) = toLowerCase(location))
    IN IF hits = <<>> THEN 0 ELSE hits[1]

\* x + parseInt(quantity)
PlusParsed(x, quantity) ==
    IF parseInt(quantity) = <<>> THEN <<>> ELSE <<x + parseInt(quantity)[1]>>

\* app.post("/add-medication"), the merge into the row found in sheetName
AddMerge(st, sheetName, data, hit, name, dose, location, quantity) ==
    logActivity(
        valuesUpdateCell(st, sheetName, 4, (hit - 1) + 2,
                         PlusParsed(OrZero(parseInt(data[hit + 1][4])), quantity)),
        <<"A","D","D">>, name, dose, location, quantity)

\* the !found path without the call of removeFromPastMedication
AddAppendKeepArchive(st, name, dose, location, quantity) ==
    LET targetSheet == TargetSheet(location)
    IN logActivity(
           sortSheetByLocation(
               valuesAppend(st, targetSheet, <<name, dose, location, quantity>>),
               targetSheet),
           <<"A","D","D">>, name, dose, location, quantity)

\* app.post("/add-medication"), the !found path
AddAppend(st, name, dose, location, quantity) ==
    LET targetSheet == TargetSheet(location)
    IN logActivity(
           sortSheetByLocation(
               valuesAppend(removeFromPastMedication(st, name, dose, location),
                            targetSheet, <<name, dose, location, quantity>>),
               targetSheet),
           <<"A","D","D">>, name, dose, location, quantity)

\* app.post("/add-medication")
addMedication(st0, rawName, dose, location, quantity) ==
    LET st == [st0 EXCEPT !.cur = 1]
        name == stripPlusPlus(rawName)
        fileData == getSheetData(st, "File Meds")
        s1 == getSheetDataCalls(st, "File Meds")
        fileHit == FindMedication(fileData, name, dose, location)
        closetData == getSheetData(s1, "Closet Meds")
        s2 == getSheetDataCalls(s1, "Closet Meds")
        closetHit == FindMedication(closetData, name, dose, location)
    IN EndItem(
        IF isAngieMode(rawName)
        THEN logActivity(valuesAppend(st, "Angie Stash", <<name, dose, quantity>>),
                         <<"A","D","D">>, name, dose, StashLabel, quantity)
        ELSE IF fileHit # 0
        THEN AddMerge(s1, "File Meds", fileData, fileHit, name, dose, location, quantity)
        ELSE IF closetHit # 0
        THEN AddMerge(s2, "Closet Meds", closetData, closetHit, name, dose, location, quantity)
        ELSE AddAppend(s2, name, dose, location, quantity))

---------------------------------------------------------------------------
(* The texts the model's sheets and requests are built from.               *)

NameA == <<"a">>

NameB == <<"b">>

NameAB == <<"a","b">>

Dose5 == <<"5","m","g">>

Cab == <<"C","a","b">>

Closet == <<"C","l","o","s","e","t">>

Txt1 == <<"1">>

Txt2 == <<"2">>

StockHeader == <<<<"N","a","m","e">>, <<"D","o","s","e">>,
                 <<"L","o","c","a","t","i","o","n">>,
                 <<"Q","u","a","n","t","i","t","y">>>>

StashHeader == <<StockHeader[1], StockHeader[2], StockHeader[4]>>

PastHeader == <<StockHeader[1], StockHeader[2], StockHeader[3]>>

LogHeader == <<<<"D","a","t","e">>, <<"A","c","t","i","o","n">>, StockHeader[1],
               StockHeader[2], StockHeader[3], StockHeader[4]>>

CatalogSheet == <<<<StockHeader[3]>>, <<Cab>>, <<Closet>>>>

\* the sheets with the given data rows under their headers
Sheets(file, closet, stash, past) ==
    [sheet \in SheetNames |->
        CASE sheet = "File Meds" -> <<StockHeader>> \o file
          [] sheet = "Closet Meds" -> <<StockHeader>> \o closet
          [] sheet = "Angie Stash" -> <<StashHeader>> \o stash
          [] sheet = "Past Medication" -> <<PastHeader>> \o past
          [] sheet = "Activity Records" -> <<LogHeader>>
          [] OTHER -> CatalogSheet]

\* the sequences that keep some of the elements of s, in order
RECURSIVE SubSeqs(_)
SubSeqs(s) ==
    IF s = <<>> THEN {<<>>}
    ELSE LET rest == SubSeqs(Tail(s))
         IN rest \cup {<<Head(s)>> \o r : r \in rest}

NoRequest ==
    [op |-> "none", name |-> <<>>, items |-> <<>>, calls |-> <<>>,
     run |-> <<>>, exc |-> FALSE, fail |-> 0]

NoForm == [search |-> <<>>, quickAdd |-> <<>>]

\* the sheets the ledger appends rows to stay within MaxRows data rows
InBounds(sheets) ==
    \A sheet \in {"File Meds", "Closet Meds", "Angie Stash", "Past Medication"} :
        Len(sheets[sheet]) <= MaxRows + 1

\* the request record of a finished handler, as the history variable keeps it
Done(op, name, items, st) ==
    [op |-> op, name |-> name, items |-> items, calls |-> st.calls,
     run |-> st.run, exc |-> st.exc, fail |-> st.fail]

\* the numbers of the calls of a request, any of which may fail (0: none)
FailPoints(st) == 0..Len(st.calls)

---------------------------------------------------------------------------
(* What the user submits from a rendered page.                             *)

\* the quantity texts a form is submitted with: at most MaxPicks items of
\* the page carry another text than the default "0"
Picks(n, texts) ==
    {q \in [1..n -> texts \cup {<<"0">>}] :
        Cardinality({i \in 1..n : q[i] # <<"0">>}) <= MaxPicks}

\* the hidden fields of the update form, with the amounts used
UpdateItems(page, q) ==
    [i \in 1..Len(page) |->
        [sheetName |-> page[i].sheetName, rowIndex |-> page[i].rowIndex,
         name |-> page[i].name, quantity |-> page[i].quantity, qty |-> q[i],
         dose |-> page[i].dose, location |-> page[i].location]]

\* the fields of the quick-add form: a past item's location is the option
\* chosen in its select, every other field is hidden
QuickAddItems(page, q, loc) ==
    [i \in 1..Len(page) |->
        [sheetName |-> page[i].sheetName, rowIndex |-> page[i].rowIndex,
         name |-> page[i].name, dose |-> page[i].dose,
         location |-> IF page[i].sheetName = "Past Medication" THEN loc[i]
                      ELSE page[i].location,
         quantity |-> page[i].quantity, addQty |-> q[i],
         originalLocation |-> page[i].location]]

\* a quick-add-update request for a typed name, not rendered by any page
TypedItem(name, dose, addQty) ==
    [sheetName |-> "", rowIndex |-> 0, name |-> name, dose |-> dose,
     location |-> <<>>, quantity |-> <<"0">>, addQty |-> addQty,
     originalLocation |-> <<>>]

---------------------------------------------------------------------------
(* The actions: one per route.                                             *)

\* GET /search?name=
Search(names) ==
    \E name \in names :
        LET st == Begin(db, 0)
        IN /\ form' = [form EXCEPT !.search = SearchForm(st, name)]
           /\ last' = Done("search", name, <<>>, SearchCalls(st, name))
           /\ nops' = nops + 1
           /\ UNCHANGED db

\* GET /quick-add?name=
QuickAdd(names) ==
    \E name \in names :
        LET st == Begin(db, 0)
        IN /\ form' = [form EXCEPT !.quickAdd =
                          QuickAddCurrent(st, name) \o QuickAddPast(st, name)]
           /\ last' = Done("quick-add", name, <<>>, QuickAddCalls(st, name))
           /\ nops' = nops + 1
           /\ UNCHANGED db

\* POST /update with the items of the rendered update form
Update(texts, failing) ==
    /\ form.search # <<>>
    /\ \E q \in Picks(Len(form.search), texts) :
         LET items == UpdateItems(form.search, q)
         IN \E fail \in (IF failing THEN FailPoints(update(Begin(db, 0), items)) ELSE {0}) :
              LET st == update(Begin(db, fail), items)
              IN /\ InBounds(st.db)
                 /\ db' = st.db
                 /\ last' = Done("update", <<>>, items, st)
                 /\ nops' = nops + 1
                 /\ UNCHANGED form

\* POST /quick-add-update with the items of the rendered quick-add form
QuickAddUpdate(texts, locations, failing) ==
    /\ form.quickAdd # <<>>
    /\ \E q \in Picks(Len(form.quickAdd), texts),
          loc \in [1..Len(form.quickAdd) -> locations] :
         LET items == QuickAddItems(form.quickAdd, q, loc)
         IN /\ \A i \in 1..Len(items) :
                  (items[i].sheetName # "Past Medication" \/ q[i] = <<"0">>)
                      => loc[i] = CHOOSE l \in locations : TRUE
            /\ \E fail \in (IF failing THEN FailPoints(quickAddUpdate(Begin(db, 0), items))
                            ELSE {0}) :
                 LET st == quickAddUpdate(Begin(db, fail), items)
                 IN /\ InBounds(st.db)
                    /\ db' = st.db
                    /\ last' = Done("quick-add-update", <<>>, items, st)
                    /\ nops' = nops + 1
                    /\ UNCHANGED form

\* POST /quick-add-update with one item whose name was typed with the marker
QuickAddTyped(names, doses, texts, failing) ==
    /\ \E name \in names, dose \in doses, addQty \in texts :
         LET items == <<TypedItem(name, dose, addQty)>>
         IN \E fail \in (IF failing THEN FailPoints(quickAddUpdate(Begin(db, 0), items))
                         ELSE {0}) :
              LET st == quickAddUpdate(Begin(db, fail), items)
              IN /\ InBounds(st.db)
                 /\ db' = st.db
                 /\ last' = Done("quick-add-update", <<>>, items, st)
                 /\ nops' = nops + 1
                 /\ UNCHANGED form

\* POST /add-medication
AddMedication(names, doses, locations, texts, failing) ==
    /\ \E name \in names, dose \in doses, location \in locations, quantity \in texts :
         LET items == <<[name |-> name, dose |-> dose, location |-> location,
                         quantity |-> quantity]>>
         IN \E fail \in (IF failing
                         THEN FailPoints(addMedication(Begin(db, 0), name, dose, location, quantity))
                         ELSE {0}) :
              LET st == addMedication(Begin(db, fail), name, dose, location, quantity)
              IN /\ InBounds(st.db)
                 /\ db' = st.db
                 /\ last' = Done("add-medication", name, items, st)
                 /\ nops' = nops + 1
                 /\ UNCHANGED form

---------------------------------------------------------------------------
(* Spec: the ledger without failing calls, from a spreadsheet in use.      *)

SeedFile == <<<<NameA, Dose5, Cab, Txt2>>, <<NameAB, Dose5, Cab, Txt1>>>>

SeedCloset == <<<<NameA, Dose5, Closet, Txt1>>>>

SeedStash == <<<<NameA, Dose5, Txt1>>, <<NameB, Dose5, Txt2>>>>

SeedPast == <<<<NameB, Dose5, Cab>>, <<NameAB, Dose5, StashLabel>>>>

Init ==
    /\ db \in {Sheets(SeedFile, SeedCloset, SeedStash, past) : past \in SubSeqs(SeedPast)}
    /\ form = NoForm
    /\ last = NoRequest
    /\ nops = 0

SearchNames == {NameA, Marker \o NameB}

QuickAddNames == {NameB, Marker \o NameB}

TypedNames == {NameB, Marker \o NameA}

GetSearch == nops < MaxOps /\ Search(SearchNames)

GetQuickAdd == nops < MaxOps /\ QuickAdd(QuickAddNames)

PostUpdate == nops < MaxOps /\ Update({Txt1, Txt2}, FALSE)

PostQuickAddUpdate == nops < MaxOps /\ QuickAddUpdate({Txt1}, {Cab, Closet}, FALSE)

PostQuickAddTyped ==
    nops < MaxOps /\ QuickAddTyped({Marker \o NameA}, {Dose5}, {Txt1}, FALSE)

PostAddMedication ==
    nops < MaxOps /\ AddMedication(TypedNames, {Dose5}, {Cab, Closet}, {Txt1}, FALSE)

Next ==
    \/ GetSearch
    \/ GetQuickAdd
    \/ PostUpdate
    \/ PostQuickAddUpdate
    \/ PostQuickAddTyped
    \/ PostAddMedication

Spec == Init /\ [][Next]_vars

---------------------------------------------------------------------------
(* SpecFail: the same requests on the whole seed, any one API call of a   *)
(* POST request may fail.                                                  *)

MaxFailOps == 2

InitFail ==
    /\ db = Sheets(SeedFile, SeedCloset, SeedStash, SeedPast)
    /\ form = NoForm
    /\ last = NoRequest
    /\ nops = 0

FailSearch == nops < MaxFailOps /\ Search(SearchNames)

FailQuickAdd == nops < MaxFailOps /\ QuickAdd(QuickAddNames)

FailUpdate == nops < MaxFailOps /\ Update({Txt1, Txt2}, TRUE)

FailQuickAddUpdate == nops < MaxFailOps /\ QuickAddUpdate({Txt1}, {Cab}, TRUE)

FailQuickAddTyped ==
    nops < MaxFailOps /\ QuickAddTyped({Marker \o NameA}, {Dose5}, {Txt1}, TRUE)

FailAddMedication ==
    nops < MaxFailOps /\ AddMedication(TypedNames, {Dose5}, {Cab}, {Txt1}, TRUE)

NextFail ==
    \/ FailSearch
    \/ FailQuickAdd
    \/ FailUpdate
    \/ FailQuickAddUpdate
    \/ FailQuickAddTyped
    \/ FailAddMedication

SpecFail == InitFail /\ [][NextFail]_vars

---------------------------------------------------------------------------
(* SpecArchive: removeFromPastMedication applied to any archive of at most *)
(* MaxArchive rows, for any key.                                           *)

MaxArchive == 3

MaxArchiveOps == 2

NameUpperA == <<"A">>

NameSpacedA == <<"a", " ">>

\* archive rows: the key's row, spellings of it, rows of other keys
ArchiveRowKinds ==
    {<<NameA, Dose5, Cab>>, <<NameUpperA, Dose5, Cab>>, <<NameSpacedA, Dose5, Cab>>,
     <<NameA, Dose5, Closet>>, <<NameB, Dose5, Cab>>, <<NameA, Dose5, <<>>>>}

ArchiveContents ==
    UNION {[1..n -> ArchiveRowKinds] : n \in 0..MaxArchive}

InitArchive ==
    /\ db \in {Sheets(<<>>, <<>>, <<>>, past) : past \in ArchiveContents}
    /\ form = NoForm
    /\ last = NoRequest
    /\ nops = 0

\* one call removeFromPastMedication({ name, dose, location })
RemovePast(names, doses, locations) ==
    \E name \in names, dose \in doses, location \in locations :
        LET st == EndItem(removeFromPastMedication(Begin(db, 0), name, dose, location))
        IN /\ db' = st.db
           /\ last' = Done("remove-past", name,
                           <<[name |-> name, dose |-> dose, location |-> location]>>, st)
           /\ form' = form
           /\ nops' = nops + 1

NextArchive ==
    nops < MaxArchiveOps /\ RemovePast({NameA, NameUpperA, NameB}, {Dose5}, {Cab, Closet})

SpecArchive == InitArchive /\ [][NextArchive]_vars

---------------------------------------------------------------------------
(* SpecMerge: /add-medication and restocks of the current row, all for the *)
(* item (a, 5mg, Cab) in any letter case, from stock holding at most one   *)
(* row of it.  The log starts with the ADD record of the quantity in       *)
(* stock.                                                                  *)

MaxMergeOps == 3

CabLower == <<"c","a","b">>

AddAction == <<"A","D","D">>

MergeSeeds ==
    {<<>>, <<<<NameA, Dose5, Cab, Txt2>>>>, <<<<NameUpperA, Dose5, Cab, Txt1>>>>}

MergeOthers == {<<>>, <<<<NameB, Dose5, Cab, Txt1>>>>}

InitMerge ==
    /\ db \in {[Sheets(seed \o other, <<>>, <<>>, <<>>) EXCEPT
                    !["Activity Records"] =
                        <<LogHeader>> \o [i \in 1..Len(seed) |->
                            <<Timestamp, AddAction, seed[i][1], seed[i][2],
                              seed[i][3], seed[i][4]>>]] :
                seed \in MergeSeeds, other \in MergeOthers}
    /\ form = NoForm
    /\ last = NoRequest
    /\ nops = 0

MergeQuickAdd == nops < MaxMergeOps /\ QuickAdd({NameA})

MergeRestock == nops < MaxMergeOps /\ QuickAddUpdate({Txt1, Txt2}, {Cab}, FALSE)

MergeAddMedication ==
    nops < MaxMergeOps
    /\ AddMedication({NameA, NameUpperA}, {Dose5}, {Cab, CabLower}, {Txt1, Txt2}, FALSE)

NextMerge ==
    \/ MergeQuickAdd
    \/ MergeRestock
    \/ MergeAddMedication

SpecMerge == InitMerge /\ [][NextMerge]_vars

---------------------------------------------------------------------------
(* SpecScenario: the row (a, 5mg, Cab, q) is searched and consumed whole,  *)
(* then the item is added again, by /add-medication or by restoring it     *)
(* from the quick-add page with the location Cab.                          *)

ScenarioFiles ==
    {<<<<NameA, Dose5, Cab, q>>>> \o other :
        q \in {Txt1, Txt2}, other \in SubSeqs(<<<<NameAB, Dose5, Cab, Txt1>>>>)}

ScenarioClosets == SubSeqs(<<<<NameA, Dose5, Closet, Txt1>>>>)

ScenarioPasts == SubSeqs(<<<<NameB, Dose5, Cab>>, <<NameA, Dose5, Closet>>>>)

InitScenario ==
    /\ db \in {Sheets(file, closet, <<>>, past) :
                file \in ScenarioFiles, closet \in ScenarioClosets, past \in ScenarioPasts}
    /\ form = NoForm
    /\ last = NoRequest
    /\ nops = 0

\* the item of a rendered page that is the row (a, 5mg, Cab) of sheetName
IsScenarioItem(item, sheetName) ==
    /\ item.sheetName = sheetName
    /\ item.name = NameA
    /\ item.dose = Dose5
    /\ item.location = Cab

ScenarioSearch == last.op = "none" /\ Search({NameA})

\* the update form submitted with the whole quantity of the row, 0 elsewhere
ScenarioConsume ==
    /\ last.op = "search"
    /\ Update({Txt1, Txt2}, FALSE)
    /\ \A i \in 1..Len(last'.items) :
          IF IsScenarioItem(last'.items[i], "File Meds")
          THEN last'.items[i].qty = last'.items[i].quantity
          ELSE last'.items[i].qty = <<"0">>

ScenarioAddMedication ==
    last.op = "update" /\ AddMedication({NameA}, {Dose5}, {Cab}, {Txt1, Txt2}, FALSE)

ScenarioQuickAdd == last.op = "update" /\ QuickAdd({NameA})

\* the quick-add form submitted with an amount for the archived item only
ScenarioRestore ==
    /\ last.op = "quick-add"
    /\ QuickAddUpdate({Txt1, Txt2}, {Cab}, FALSE)
    /\ \A i \in 1..Len(last'.items) :
          IF /\ last'.items[i].sheetName = "Past Medication"
             /\ last'.items[i].name = NameA
             /\ last'.items[i].originalLocation = Cab
          THEN last'.items[i].addQty # <<"0">>
          ELSE last'.items[i].addQty = <<"0">>

NextScenario ==
    \/ ScenarioSearch
    \/ ScenarioConsume
    \/ ScenarioAddMedication
    \/ ScenarioQuickAdd
    \/ ScenarioRestore

SpecScenario == InitScenario /\ [][NextScenario]_vars

---------------------------------------------------------------------------
(* SpecDose: /add-medication for (a, Cab) with the dose written as 5mg,    *)
(* 5 mg, 5 MG or with two spaces, from stock holding at most one row of    *)
(* the item.                                                               *)

MaxDoseOps == 3

Dose5Spaced == <<"5", " ", "m", "g">>

Dose5Upper == <<"5", " ", "M", "G">>

Dose5Wide == <<" ", "5", " ", " ", "m", "g">>

DoseAddMedication ==
    nops < MaxDoseOps
    /\ AddMedication({NameA}, {Dose5, Dose5Spaced, Dose5Upper, Dose5Wide}, {Cab},
                     {Txt1, Txt2}, FALSE)

NextDose == DoseAddMedication

SpecDose == InitMerge /\ [][NextDose]_vars

---------------------------------------------------------------------------
(* SpecSpelling: /add-medication and the typed aliased restock on the      *)
(* whole seed, the name a and the location Cab written in another letter   *)
(* case, with a trailing space, or with a doubled inner space.             *)

MaxSpellingOps == 2

CabSpaced == <<"C", "a", "b", " ">>

NameAWord == <<"a", " ", "c">>

NameAWordWide == <<"a", " ", " ", "c">>

SpellingNames == {NameA, NameUpperA, NameSpacedA, NameAWord, NameAWordWide}

SpellingAddMedication ==
    nops < MaxSpellingOps
    /\ AddMedication(SpellingNames, {Dose5}, {Cab, CabLower, CabSpaced}, {Txt1}, FALSE)

SpellingQuickAddTyped ==
    nops < MaxSpellingOps
    /\ QuickAddTyped({Marker \o name : name \in SpellingNames}, {Dose5}, {Txt1}, FALSE)

NextSpelling ==
    \/ SpellingAddMedication
    \/ SpellingQuickAddTyped

SpecSpelling == InitFail /\ [][NextSpelling]_vars

---------------------------------------------------------------------------
(* SpecLog: MaxLoggers requests are each in a call of logActivity at the   *)
(* same time.  A call is three awaited API calls (the sheet lookup, the    *)
(* row insert, the write of A2:F2), and the calls of the requests          *)
(* interleave in any order.  last.items holds the record of each request,  *)
(* last.calls the API calls issued so far, last.run the sheets at the      *)
(* start.                                                                  *)

MaxLoggers == 2

RemoveAction == <<"R","E","M","O","V","E">>

LogRecords ==
    {<<Timestamp, AddAction, NameA, Dose5, Cab, Txt1>>,
     <<Timestamp, RemoveAction, NameA, Dose5, Cab, Txt1>>,
     <<Timestamp, AddAction, NameB, Dose5, Closet, Txt2>>}

LogSeeds == {<<>>, <<<<Timestamp, RemoveAction, NameB, Dose5, Cab, Txt2>>>>}

InitLog ==
    /\ db \in {[Sheets(SeedFile, SeedCloset, SeedStash, SeedPast) EXCEPT
                    !["Activity Records"] = <<LogHeader>> \o seed] : seed \in LogSeeds}
    /\ form = NoForm
    /\ last \in {[op |-> "log", name |-> <<>>, items |-> items, calls |-> <<>>,
                   run |-> <<db>>, exc |-> FALSE, fail |-> 0] :
                  items \in [1..MaxLoggers -> LogRecords]}
    /\ nops = 0

\* the number of API calls request p has issued in its logActivity
LogCallsOf(p) == Cardinality({k \in 1..Len(last.calls) : last.calls[k].item = p})

\* the next awaited API call of logActivity in request p
LogStep(p) ==
    LET st == [Begin(db, 0) EXCEPT !.cur = p, !.calls = last.calls]
        record == last.items[p]
        s1 == CASE LogCallsOf(p) = 0 -> getSheetIdByNameCalls(st, "Activity Records")
                [] LogCallsOf(p) = 1 -> insertDimension(st, "Activity Records", 1, 2)
                [] OTHER -> valuesUpdateRow(st, "Activity Records", 2, record)
    IN /\ LogCallsOf(p) < 3
       /\ db' = s1.db
       /\ last' = [last EXCEPT !.calls = s1.calls]
       /\ nops' = nops + 1
       /\ UNCHANGED form

NextLog == \E p \in 1..MaxLoggers : LogStep(p)

SpecLog == InitLog /\ [][NextLog]_vars

---------------------------------------------------------------------------
(* SpecStash: the typed aliased restock on any stash of at most MaxStash   *)
(* rows without duplicates.                                                *)

MaxStash == 2

MaxStashOps == 2

StashRowKinds ==
    {<<NameA, Dose5, Txt1>>, <<NameB, Dose5, Txt2>>, <<NameAB, Dose5, Txt1>>}

StashContents ==
    {stash \in UNION {[1..n -> StashRowKinds] : n \in 0..MaxStash} :
        \A i, j \in 1..Len(stash) : stash[i] = stash[j] => i = j}

InitStash ==
    /\ db \in {Sheets(SeedFile, SeedCloset, stash, <<>>) : stash \in StashContents}
    /\ form = NoForm
    /\ last = NoRequest
    /\ nops = 0

StashQuickAddTyped ==
    nops < MaxStashOps
    /\ QuickAddTyped({Marker \o NameA, Marker \o NameB}, {Dose5}, {Txt1, Txt2}, FALSE)

NextStash == StashQuickAddTyped

SpecStash == InitStash /\ [][NextStash]_vars

---------------------------------------------------------------------------
(* SpecRouting: the requests that append to File Meds and Closet Meds      *)
(* (/add-medication, the restore of an archived item) with locations with  *)
(* and without the keyword, and Consume, from correctly routed tables.     *)

MaxRoutingOps == 3

ClosetUpper == <<"C","L","O","S","E","T"," ","2">>

RoutingLocations == {Cab, Closet, ClosetUpper}

InitRouting ==
    /\ db = Sheets(SeedFile, <<<<NameA, Dose5, Closet, Txt2>>>>, SeedStash,
                   <<<<NameB, Dose5, Cab>>>>)
    /\ form = NoForm
    /\ last = NoRequest
    /\ nops = 0

RoutingSearch == nops < MaxRoutingOps /\ Search({NameA})

RoutingUpdate == nops < MaxRoutingOps /\ Update({Txt1, Txt2}, FALSE)

RoutingQuickAdd == nops < MaxRoutingOps /\ QuickAdd({NameB})

RoutingQuickAddUpdate ==
    nops < MaxRoutingOps /\ QuickAddUpdate({Txt1}, RoutingLocations, FALSE)

RoutingAddMedication ==
    nops < MaxRoutingOps
    /\ AddMedication({NameB}, {Dose5}, RoutingLocations, {Txt1}, FALSE)

NextRouting ==
    \/ RoutingSearch
    \/ RoutingUpdate
    \/ RoutingQuickAdd
    \/ RoutingQuickAddUpdate
    \/ RoutingAddMedication

SpecRouting == InitRouting /\ [][NextRouting]_vars

---------------------------------------------------------------------------
(* SpecSort: appends that the resort has to move (a location before the    *)
(* ones in the table, a name before the ones at the same location), with   *)
(* Consume and resubmitted pages in between.  Attic is a location that the *)
(* Location Catalog does not list.                                         *)

MaxSortOps == 3

Attic == <<"A","t","t","i","c">>

SortLocations == {Attic, Cab, Closet}

InitSort ==
    /\ db = Sheets(<<<<NameAB, Dose5, Cab, Txt2>>>>, <<<<NameAB, Dose5, Closet, Txt1>>>>,
                   SeedStash, <<<<NameA, Dose5, Cab>>>>)
    /\ form = NoForm
    /\ last = NoRequest
    /\ nops = 0

SortSearch == nops < MaxSortOps /\ Search({NameA})

SortUpdate == nops < MaxSortOps /\ Update({Txt1, Txt2}, FALSE)

SortQuickAdd == nops < MaxSortOps /\ QuickAdd({NameA})

SortQuickAddUpdate ==
    nops < MaxSortOps /\ QuickAddUpdate({Txt1}, SortLocations, FALSE)

SortAddMedication ==
    nops < MaxSortOps
    /\ AddMedication({NameA, NameB}, {Dose5}, SortLocations, {Txt1}, FALSE)

NextSort ==
    \/ SortSearch
    \/ SortUpdate
    \/ SortQuickAdd
    \/ SortQuickAddUpdate
    \/ SortAddMedication

SpecSort == InitSort /\ [][NextSort]_vars

---------------------------------------------------------------------------
(* SpecStale: one rendered search page submitted more than once, so that   *)
(* a later submission carries the quantities and positions the page had    *)
(* before the earlier ones changed the rows.                               *)

MaxStaleOps == 3

Txt3 == <<"3">>

InitStale ==
    /\ db = Sheets(<<<<NameA, Dose5, Cab, Txt3>>, <<NameAB, Dose5, Cab, Txt1>>>>,
                   SeedCloset, SeedStash, SeedPast)
    /\ form = NoForm
    /\ last = NoRequest
    /\ nops = 0

StaleSearch == nops < MaxStaleOps /\ Search(SearchNames)

StaleUpdate == nops < MaxStaleOps /\ Update({Txt1, Txt2}, FALSE)

NextStale ==
    \/ StaleSearch
    \/ StaleUpdate

SpecStale == InitStale /\ [][NextStale]_vars

---------------------------------------------------------------------------
(* SpecRead: /add-medication for items that the stock tables hold and for  *)
(* items they do not, with any one of the calls of a request failing, the  *)
(* reads of File Meds and Closet Meds included.                            *)

MaxReadOps == 2

ReadAddMedication ==
    nops < MaxReadOps
    /\ AddMedication({NameA, NameB}, {Dose5}, {Cab, Closet}, {Txt1}, TRUE)

NextRead == ReadAddMedication

SpecRead == InitFail /\ [][NextRead]_vars

---------------------------------------------------------------------------
(* SpecInput: the requests on the whole seed with any quantity text (a    *)
(* positive number, a negative number, a word that is no number, zero)    *)
(* and with names typed with the marker once or twice.                    *)

MaxInputOps == 2

TxtZero == <<"0">>

TxtNegative == <<"-", "1">>

TxtWord == <<"x">>

InputTexts == {Txt1, TxtNegative, TxtWord}

InputNames == TypedNames \cup {Marker \o Marker \o NameA}

InputSearch == nops < MaxInputOps /\ Search(SearchNames)

InputQuickAdd == nops < MaxInputOps /\ QuickAdd(QuickAddNames)

InputUpdate == nops < MaxInputOps /\ Update(InputTexts, FALSE)

InputQuickAddUpdate == nops < MaxInputOps /\ QuickAddUpdate(InputTexts, {Cab}, FALSE)

InputQuickAddTyped ==
    nops < MaxInputOps /\ QuickAddTyped({Marker \o NameA}, {Dose5}, InputTexts, FALSE)

InputAddMedication ==
    nops < MaxInputOps
    /\ AddMedication(InputNames, {Dose5}, {Cab}, InputTexts \cup {TxtZero}, FALSE)

NextInput ==
    \/ InputSearch
    \/ InputQuickAdd
    \/ InputUpdate
    \/ InputQuickAddUpdate
    \/ InputQuickAddTyped
    \/ InputAddMedication

SpecInput == InitFail /\ [][NextInput]_vars

---------------------------------------------------------------------------
(* The vocabulary of the claims.                                           *)

RECURSIVE CollapseSpaces(_)
CollapseSpaces(s) ==
    IF Len(s) < 2 THEN s
    ELSE IF IsSpace(s[1]) /\ IsSpace(s[2]) THEN CollapseSpaces(Tail(s))
    ELSE <<Head(s)>> \o CollapseSpaces(Tail(s))

\* normalize(s) of the specification: trimmed, lower case, runs of blanks
\* collapsed to one
Normalize(s) == CollapseSpaces(toLowerCase(trim(s)))

StockTables == {"File Meds", "Closet Meds"}

ItemTables == {"File Meds", "Closet Meds", "Angie Stash"}

\* the normalized (name, dose, location) of a row of an item table
ItemKey(sheet, row) ==
    <<Normalize(row[1]), Normalize(row[2]),
      Normalize(IF sheet = "Angie Stash" THEN StashLabel ELSE row[3])>>

NormKey(name, dose, location) == <<Normalize(name), Normalize(dose), Normalize(location)>>

\* the data rows (2..) of a sheet that satisfy Test
RowsWhere(rows, Test(_)) == {r \in 2..Len(rows) : Test(rows[r])}

\* batch item i of the last request was processed to its end
Finished(i) == i + 1 <= Len(last.run)

HasMarker(name) == startsWith(name, Marker)

IsStashLabel(location) == toLowerCase(trim(location)) = toLowerCase(StashLabel)

LogRecord(action, name, dose, location, quantity) ==
    <<Timestamp, action, name, dose, location, quantity>>

---------------------------------------------------------------------------
(* C2  Item uniqueness: after any sequence of failure-free ledger          *)
(* operations no item table (File Meds, Closet Meds, Angie Stash) holds    *)
(* two rows with the same normalized (name, dose, location).               *)

C2_NoDuplicateItems ==
    \A sheet \in ItemTables :
        \A i, j \in 2..Len(db[sheet]) :
            i < j => ItemKey(sheet, db[sheet][i]) # ItemKey(sheet, db[sheet][j])

---------------------------------------------------------------------------
(* C3  Consume to zero archives exactly once: a Consume tuple whose        *)
(* requested quantity equals the current quantity of the item it names     *)
(* removes that item's row from its table, adds exactly one row            *)
(* (name, dose, location) to Past Medication, and leaves every other row   *)
(* of every item table as it was.                                          *)

\* the rows of the tuple's table that hold the item the tuple names
ConsumeTarget(sheets, item) ==
    RowsWhere(sheets[item.sheetName],
              LAMBDA row : ItemKey(item.sheetName, row)
                               = NormKey(item.name, item.dose, item.location))

C3_ConsumeToZeroArchivesOnce ==
    last.op = "update" =>
        \A i \in 1..Len(last.items) :
            LET item == last.items[i]
                pre == last.run[i]
                post == last.run[i + 1]
                rows == pre[item.sheetName]
                target == ConsumeTarget(pre, item)
                qcol == IF item.sheetName = "Angie Stash" THEN 3 ELSE 4
            IN (/\ Finished(i)
                /\ Cardinality(target) = 1
                /\ OrZero(parseInt(item.qty)) > 0
                /\ \A r \in target : parseInt(rows[r][qcol]) = parseInt(item.qty))
               => /\ \A r \in target : post[item.sheetName] = RemoveAt(rows, r)
                  /\ post["Past Medication"]
                        = Append(pre["Past Medication"],
                                 <<item.name, item.dose, item.location>>)
                  /\ \A sheet \in ItemTables \ {item.sheetName} : post[sheet] = pre[sheet]

---------------------------------------------------------------------------
(* C4  Archive/restore round trip: for an item that exists only as an      *)
(* ArchivedItem, Archive-Restore with restock quantity Q > 0 leaves        *)
(* exactly one active row for (name, dose), in the table the restore       *)
(* routes to (the stash for a stash-origin item, else the table of the     *)
(* chosen location), with quantity exactly Q, and leaves no archive row    *)
(* for (name, dose, lastLocation).                                         *)

\* the tables an archived item returns to
RestoreTables(item) ==
    IF IsStashLabel(item.originalLocation) THEN {"Angie Stash"} ELSE StockTables

\* the <<table, row>> places that hold a row with this (name, dose)
ActiveRows(sheets, tables, name, dose) ==
    {p \in UNION {{<<sheet, r>> : r \in 2..Len(sheets[sheet])} : sheet \in tables} :
        /\ Normalize(sheets[p[1]][p[2]][1]) = Normalize(name)
        /\ Normalize(sheets[p[1]][p[2]][2]) = Normalize(dose)}

ArchiveRows(sheets, name, dose, location) ==
    RowsWhere(sheets["Past Medication"],
              LAMBDA row : NormKey(row[1], row[2], row[3]) = NormKey(name, dose, location))

\* item i of a quick-add-update request restores an archived item
IsRestore(item) ==
    /\ item.sheetName = "Past Medication"
    /\ ~HasMarker(item.name)
    /\ item.name # <<>>
    /\ OrZero(parseInt(item.addQty)) > 0

OnlyArchived(sheets, item) ==
    /\ ArchiveRows(sheets, item.name, item.dose, item.originalLocation) # {}
    /\ ActiveRows(sheets, RestoreTables(item), item.name, item.dose) = {}

RestoredRow(item) ==
    IF IsStashLabel(item.originalLocation)
    THEN <<item.name, item.dose, NumText(parseInt(item.addQty))>>
    ELSE <<item.name, item.dose, item.location, NumText(parseInt(item.addQty))>>

C4_ArchiveRestoreRoundTrip ==
    last.op = "quick-add-update" =>
        \A i \in 1..Len(last.items) :
            LET item == last.items[i]
                pre == last.run[i]
                post == last.run[i + 1]
                active == ActiveRows(post, RestoreTables(item), item.name, item.dose)
            IN (Finished(i) /\ IsRestore(item) /\ OnlyArchived(pre, item))
               => /\ Cardinality(active) = 1
                  /\ \A p \in active :
                        /\ post[p[1]][p[2]] = RestoredRow(item)
                        /\ p[1] = (IF IsStashLabel(item.originalLocation)
                                   THEN "Angie Stash" ELSE TargetSheet(item.location))
                  /\ ArchiveRows(post, item.name, item.dose, item.originalLocation) = {}

C4_Witness ==
    /\ last.op = "quick-add-update"
    /\ \E i \in 1..Len(last.items) :
          /\ Finished(i)
          /\ IsRestore(last.items[i])
          /\ OnlyArchived(last.run[i], last.items[i])
          /\ ~IsStashLabel(last.items[i].originalLocation)
          /\ last.items[i].addQty = Txt1

---------------------------------------------------------------------------
(* C5  Repeated restore is a no-op: an Archive-Restore request submitted   *)
(* when the archive no longer holds its entry changes no table and adds    *)
(* no activity record.                                                     *)

C5_RepeatedRestoreIsNoOp ==
    last.op = "quick-add-update" =>
        \A i \in 1..Len(last.items) :
            (/\ Finished(i)
             /\ IsRestore(last.items[i])
             /\ ArchiveRows(last.run[i], last.items[i].name, last.items[i].dose,
                            last.items[i].originalLocation) = {})
            => last.run[i + 1] = last.run[i]

---------------------------------------------------------------------------
(* C7  Aliasing isolation, aliased side: a search, quick-add search,       *)
(* restock or new-item request whose submitted name starts with the marker *)
(* issues no call on File Meds or Closet Meds.                             *)

\* the name submitted with call k of the last request
SubmittedName(k) ==
    IF last.op \in {"search", "quick-add", "add-medication"} THEN last.name
    ELSE last.items[last.calls[k].item].name

C7_AliasedNeverTouchesNormal ==
    last.op \in {"search", "quick-add", "quick-add-update", "add-medication"} =>
        \A k \in 1..Len(last.calls) :
            HasMarker(SubmittedName(k)) => last.calls[k].sheet \notin StockTables

C7_Witness ==
    /\ last.op = "add-medication"
    /\ HasMarker(last.name)
    /\ \E k \in 1..Len(last.calls) :
          /\ last.calls[k].api = "append"
          /\ last.calls[k].sheet = "Angie Stash"
          /\ last.calls[k].ok

---------------------------------------------------------------------------
(* C8  Aliasing isolation, normal side.  As claimed: a request whose       *)
(* submitted name does not start with the marker issues no call on Angie   *)
(* Stash.                                                                  *)

C8_NormalNeverTouchesStash ==
    last.op # "none" =>
        \A k \in 1..Len(last.calls) :
            ~HasMarker(SubmittedName(k)) => last.calls[k].sheet # "Angie Stash"

\* batch item i of the last request refers to the stash: its row is a row of
\* Angie Stash, or it is an archived item whose last location is the stash
RefersToStash(i) ==
    /\ last.op \in {"update", "quick-add-update"}
    /\ \/ last.items[i].sheetName = "Angie Stash"
       \/ /\ last.op = "quick-add-update"
          /\ last.items[i].sheetName = "Past Medication"
          /\ IsStashLabel(last.items[i].originalLocation)

(* C8 as amended: a request whose submitted name does not start with the   *)
(* marker and whose row reference does not name the stash (sheetName is    *)
(* not Angie Stash, and an archived item's last location is not the stash  *)
(* label) issues no call on Angie Stash.                                   *)

C8_NormalTouchesStashOnlyByReference ==
    last.op # "none" =>
        \A k \in 1..Len(last.calls) :
            (~HasMarker(SubmittedName(k)) /\ ~RefersToStash(last.calls[k].item))
                => last.calls[k].sheet # "Angie Stash"

C8_Witness ==
    /\ last.op = "update"
    /\ \E k \in 1..Len(last.calls) :
          /\ ~HasMarker(SubmittedName(k))
          /\ ~RefersToStash(last.calls[k].item)
          /\ last.calls[k].api = "update"
          /\ last.calls[k].sheet = "File Meds"
          /\ last.calls[k].ok

---------------------------------------------------------------------------
(* C9  Audit precedes mutation in Consume: every call a Consume tuple      *)
(* issues on a stock table or the archive comes after the write of the     *)
(* tuple's REMOVE record; and for every tuple that is not skipped and      *)
(* whose record write does not itself fail, the tuple is processed to its  *)
(* end with exactly one record (REMOVE, name, dose, location, requested    *)
(* quantity) added on top of the log, whether the later append, update or  *)
(* delete call succeeded or failed.                                        *)

ItemCalls(i) == {k \in 1..Len(last.calls) : last.calls[k].item = i}

IsLogCall(k) == last.calls[k].sheet = "Activity Records"

ConsumeSkipped(item) == item.rowIndex = 0 \/ OrZero(parseInt(item.qty)) = 0

C9_AuditPrecedesMutation ==
    last.op = "update" =>
        \A i \in 1..Len(last.items) :
            LET item == last.items[i]
                writes == {k \in ItemCalls(i) :
                              IsLogCall(k) /\ last.calls[k].api = "update" /\ last.calls[k].ok}
            IN /\ \A m \in ItemCalls(i) :
                     ~IsLogCall(m) => \E w \in writes : w < m
               /\ (/\ ~ConsumeSkipped(item)
                   /\ ItemCalls(i) # {}
                   /\ \A k \in ItemCalls(i) : IsLogCall(k) => last.calls[k].ok)
                  => /\ Finished(i)
                     /\ Cardinality(writes) = 1
                     /\ last.run[i + 1]["Activity Records"]
                          = <<Head(last.run[i]["Activity Records"]),
                              LogRecord(<<"R","E","M","O","V","E">>, item.name, item.dose,
                                        item.location,
                                        NumText(<<OrZero(parseInt(item.qty))>>))>>
                            \o Tail(last.run[i]["Activity Records"])

C9_Witness ==
    /\ last.op = "update"
    /\ \E k \in 1..Len(last.calls) :
          /\ last.calls[k].api = "delete"
          /\ last.calls[k].sheet = "File Meds"
          /\ ~last.calls[k].ok
          /\ Finished(last.calls[k].item)
          /\ Len(last.run[last.calls[k].item + 1]["Activity Records"])
                = Len(last.run[last.calls[k].item]["Activity Records"]) + 1

---------------------------------------------------------------------------
(* C6  Descending delete safety: removeFromPastMedication reads the        *)
(* archive once, before any delete, and issues one delete per row whose    *)
(* three cells equal the key as the function compares them (up to letter   *)
(* case), at strictly decreasing positions; afterwards the archive is the  *)
(* rows it read without the matching ones, the others in their original    *)
(* order, and no other sheet has changed.                                  *)

ArchiveMatches(row, key) ==
    /\ toLowerCase(row[1]) = toLowerCase(key.name)
    /\ toLowerCase(row[2]) = toLowerCase(key.dose)
    /\ toLowerCase(row[3]) = toLowerCase(key.location)

PastDeletes == SelectSeq(last.calls, LAMBDA c : c.api = "delete")

C6_DescendingDeleteSafety ==
    last.op = "remove-past" =>
        LET key == last.items[1]
            pre == last.run[1]["Past Medication"]
            post == last.run[2]["Past Medication"]
        IN /\ post = SelectSeq(pre, LAMBDA row : ~ArchiveMatches(row, key))
           /\ Len(PastDeletes) = Cardinality({r \in 1..Len(pre) : ArchiveMatches(pre[r], key)})
           /\ \A k \in 1..Len(PastDeletes) :
                 /\ PastDeletes[k].sheet = "Past Medication"
                 /\ ArchiveMatches(pre[PastDeletes[k].row], key)
                 /\ k > 1 => PastDeletes[k].row < PastDeletes[k - 1].row
           /\ \A k \in 1..Len(last.calls) :
                 (last.calls[k].api = "get" /\ last.calls[k].sheet = "Past Medication")
                    => k = 1
           /\ last.calls # <<>> /\ last.calls[1].api = "get"
           /\ \A sheet \in SheetNames \ {"Past Medication"} :
                 last.run[2][sheet] = last.run[1][sheet]

\* two matching rows, the lower one followed by a row of another key
C6_Witness ==
    /\ last.op = "remove-past"
    /\ LET key == last.items[1]
           pre == last.run[1]["Past Medication"]
       IN \E r1, r2, r3 \in 2..Len(pre) :
             /\ r1 < r2 /\ r2 < r3
             /\ ArchiveMatches(pre[r1], key)
             /\ ~ArchiveMatches(pre[r2], key)
             /\ ArchiveMatches(pre[r3], key)
             /\ pre[r1] # pre[r3]
             /\ last.run[2]["Past Medication"] = <<pre[1], pre[r2]>>

---------------------------------------------------------------------------
(* C1  Merge uniqueness: after any sequence of /add-medication requests    *)
(* and restocks of the current row that all target (a, 5mg, Cab), from     *)
(* stock with at most one row of it, File Meds and Closet Meds together    *)
(* hold exactly one row of the item and its quantity is the quantity it    *)
(* started with plus every quantity added (the sum of the ADD records).    *)

MergeTarget == NormKey(NameA, Dose5, Cab)

MergeRows ==
    {<<sheet, r>> \in StockTables \X (2..(MaxRows + 1)) :
        r <= Len(db[sheet]) /\ ItemKey(sheet, db[sheet][r]) = MergeTarget}

RECURSIVE SumAdded(_)
SumAdded(log) ==
    IF log = <<>> THEN 0
    ELSE (IF Head(log)[2] = AddAction THEN OrZero(parseInt(Head(log)[6])) ELSE 0)
         + SumAdded(Tail(log))

C1_MergeUniqueness ==
    SumAdded(Tail(db["Activity Records"])) > 0 =>
        /\ Cardinality(MergeRows) = 1
        /\ \A at \in MergeRows :
              OrZero(parseInt(db[at[1]][at[2]][4])) = SumAdded(Tail(db["Activity Records"]))

---------------------------------------------------------------------------
(* C10  Consume-then-restock: after the row (a, 5mg, Cab, q) is consumed   *)
(* whole and (a, 5mg, Cab) is added again with the quantity n > 0, no      *)
(* archive row of the item is left, File Meds and Closet Meds hold exactly *)
(* one row of it, (a, 5mg, Cab, n) in File Meds, and the log holds exactly *)
(* two records: REMOVE with q, then ADD with n (the newest first).         *)

ScenarioDone == last.op \in {"add-medication", "quick-add-update"}

\* the quantity q the row was rendered with by /search
ScenarioConsumed ==
    form.search[CHOOSE i \in 1..Len(form.search) :
                    IsScenarioItem(form.search[i], "File Meds")].quantity

\* the quantity n submitted by the last request
ScenarioAdded ==
    IF last.op = "add-medication" THEN last.items[1].quantity
    ELSE last.items[CHOOSE i \in 1..Len(last.items) :
                       last.items[i].addQty # <<"0">>].addQty

C10_ConsumeThenRestock ==
    ScenarioDone =>
        /\ ArchiveRows(db, NameA, Dose5, Cab) = {}
        /\ Cardinality(MergeRows) = 1
        /\ \A at \in MergeRows :
              /\ at[1] = "File Meds"
              /\ db[at[1]][at[2]] = <<NameA, Dose5, Cab, ScenarioAdded>>
        /\ db["Activity Records"]
              = <<LogHeader,
                  LogRecord(AddAction, NameA, Dose5, Cab, ScenarioAdded),
                  LogRecord(<<"R","E","M","O","V","E">>, NameA, Dose5, Cab, ScenarioConsumed)>>

\* the scenario ended through /add-medication after a Consume of 2
C10_Witness ==
    /\ last.op = "add-medication"
    /\ form.search # <<>>
    /\ ScenarioConsumed = Txt2
    /\ ScenarioAdded = Txt1
    /\ Len(db["Activity Records"]) = 3
    /\ \E r \in 2..Len(db["File Meds"]) : db["File Meds"][r] = <<NameA, Dose5, Cab, Txt1>>

---------------------------------------------------------------------------
(* C11  Consume with a requested quantity of zero or less is a no-op for   *)
(* the tuple: the handler issues no call for it (no activity record, no    *)
(* cell update, archive insert or row delete) and leaves every sheet as it *)
(* was.                                                                    *)

C11_NonPositiveConsumeIsNoOp ==
    last.op = "update" =>
        \A i \in 1..Len(last.items) :
            (Finished(i) /\ OrZero(parseInt(last.items[i].qty)) <= 0)
                => /\ ItemCalls(i) = {}
                   /\ last.run[i + 1] = last.run[i]

---------------------------------------------------------------------------
(* C12  After /add-medication took the not-found path (it appended a row   *)
(* to File Meds or Closet Meds), the archive holds no row with the name    *)
(* and dose of the new row, whatever the location of the archive row.      *)

AppendedToStock ==
    \E k \in 1..Len(last.calls) :
        /\ last.calls[k].api = "append"
        /\ last.calls[k].sheet \in StockTables
        /\ last.calls[k].ok

C12_NotFoundRemovesEveryArchived ==
    (last.op = "add-medication" /\ AppendedToStock) =>
        RowsWhere(db["Past Medication"],
                  LAMBDA row : /\ Normalize(row[1]) = Normalize(stripPlusPlus(last.name))
                               /\ Normalize(row[2]) = Normalize(last.items[1].dose)) = {}

---------------------------------------------------------------------------
(* C13  The marker is never persisted: no data row of Angie Stash, File    *)
(* Meds, Closet Meds or Past Medication and no activity record has a name  *)
(* that starts with "sparkles++".                                          *)

C13_MarkerNeverPersisted ==
    /\ \A sheet \in ItemTables \cup {"Past Medication"} :
          \A r \in 2..Len(db[sheet]) : ~HasMarker(db[sheet][r][1])
    /\ \A r \in 2..Len(db["Activity Records"]) : ~HasMarker(db["Activity Records"][r][3])

---------------------------------------------------------------------------
(* C14  Position correctness: every item of the page /search has just      *)
(* rendered, from getFilteredData or from getAngiesStashFiltered, carries  *)
(* the sheet row of its item: the row of sheetName at rowIndex exists and  *)
(* holds the item's name, dose and quantity.                               *)

C14_PositionsAreSheetRows ==
    last.op = "search" =>
        \A i \in 1..Len(form.search) :
            LET item == form.search[i]
                rows == db[item.sheetName]
            IN /\ item.rowIndex \in 2..Len(rows)
               /\ rows[item.rowIndex][1] = item.name
               /\ rows[item.rowIndex][2] = item.dose
               /\ rows[item.rowIndex][Width(item.sheetName)] = item.quantity

---------------------------------------------------------------------------
(* C15  Quantity invariant: whatever quantities are submitted, every data  *)
(* row of File Meds, Closet Meds and Angie Stash has a quantity cell that  *)
(* is the text of an integer greater than 0.                               *)

IsPositiveInteger(cell) ==
    /\ parseInt(cell) # <<>>
    /\ NumText(parseInt(cell)) = cell
    /\ parseInt(cell)[1] > 0

C15_QuantitiesArePositive ==
    \A sheet \in ItemTables :
        \A r \in 2..Len(db[sheet]) : IsPositiveInteger(db[sheet][r][Width(sheet)])

---------------------------------------------------------------------------
(* C16  Stash-origin restore: a finished restore of an archived item whose *)
(* original location is the stash label appends (name, dose, quantity) to  *)
(* Angie Stash whatever location was chosen, issues no call on File Meds   *)
(* or Closet Meds and leaves them as they were, and puts one ADD record    *)
(* with the location Angie Stash on top of the log; a finished restore of  *)
(* any other archived item puts one ADD record with the chosen location    *)
(* on top of the log.                                                      *)

RestoreRecord(item, location) ==
    LogRecord(AddAction, item.name, item.dose, location, NumText(parseInt(item.addQty)))

LogGrewBy(i, record) ==
    last.run[i + 1]["Activity Records"]
        = <<Head(last.run[i]["Activity Records"]), record>>
          \o Tail(last.run[i]["Activity Records"])

C16_StashOriginRestore ==
    last.op = "quick-add-update" =>
        \A i \in 1..Len(last.items) :
            LET item == last.items[i]
            IN (Finished(i) /\ IsRestore(item)) =>
                  IF IsStashLabel(item.originalLocation)
                  THEN /\ last.run[i + 1]["Angie Stash"]
                            = Append(last.run[i]["Angie Stash"],
                                     <<item.name, item.dose, NumText(parseInt(item.addQty))>>)
                       /\ \A sheet \in StockTables :
                             /\ last.run[i + 1][sheet] = last.run[i][sheet]
                             /\ \A k \in ItemCalls(i) : last.calls[k].sheet # sheet
                       /\ LogGrewBy(i, RestoreRecord(item, StashLabel))
                  ELSE LogGrewBy(i, RestoreRecord(item, item.location))

\* a stash-origin item restored with the location Closet chosen
C16_Witness ==
    /\ last.op = "quick-add-update"
    /\ \E i \in 1..Len(last.items) :
          /\ Finished(i)
          /\ IsRestore(last.items[i])
          /\ IsStashLabel(last.items[i].originalLocation)
          /\ last.items[i].location = Closet
          /\ Len(last.run[i + 1]["Angie Stash"]) = Len(last.run[i]["Angie Stash"]) + 1

---------------------------------------------------------------------------
(* C17  In /add-medication a submitted dose and a stored dose that differ  *)
(* only in letter case or whitespace match: when File Meds or Closet Meds  *)
(* holds a row with the submitted name and location and such a dose, the   *)
(* request appends nothing, leaves every stock table with as many rows as  *)
(* before, and adds the submitted quantity to that row.                    *)

\* the dose without any whitespace, in lower case
DoseKey(dose) ==
    LET kept == SelectSeq(dose, LAMBDA c : c \notin {" ", "\t", "\n"})
    IN [i \in 1..Len(kept) |-> LowerChar(kept[i])]

\* the places of the stock rows of sheets that the submitted item equals up
\* to the writing of the dose
SameUpToDose(sheets, item) ==
    {at \in StockTables \X (2..(MaxRows + 1)) :
        /\ at[2] <= Len(sheets[at[1]])
        /\ sheets[at[1]][at[2]][1] = item.name
        /\ sheets[at[1]][at[2]][3] = item.location
        /\ DoseKey(sheets[at[1]][at[2]][2]) = DoseKey(item.dose)}

C17_DoseMatchIgnoresWhitespace ==
    last.op = "add-medication" =>
        \A at \in SameUpToDose(last.run[1], last.items[1]) :
            /\ \A k \in 1..Len(last.calls) : last.calls[k].api # "append"
            /\ \A sheet \in StockTables : Len(db[sheet]) = Len(last.run[1][sheet])
            /\ SubSeq(db[at[1]][at[2]], 1, 3) = SubSeq(last.run[1][at[1]][at[2]], 1, 3)
            /\ parseInt(db[at[1]][at[2]][4])
                  = <<parseInt(last.run[1][at[1]][at[2]][4])[1]
                      + parseInt(last.items[1].quantity)[1]>>

\* a merge into a row whose stored dose is written differently
C17_Witness ==
    /\ last.op = "add-medication"
    /\ \E at \in SameUpToDose(last.run[1], last.items[1]) :
          /\ last.run[1][at[1]][at[2]][2] # last.items[1].dose
          /\ toLowerCase(last.run[1][at[1]][at[2]][2]) # toLowerCase(last.items[1].dose)
          /\ db[at[1]][at[2]][4] # last.run[1][at[1]][at[2]][4]

---------------------------------------------------------------------------
(* C18  Normalized equality in every ledger match: a request for an item   *)
(* that a table already holds under a name or location differing only in  *)
(* letter case, outer whitespace or runs of inner whitespace appends no    *)
(* row to that table (/add-medication to File Meds and Closet Meds, the    *)
(* typed aliased restock to Angie Stash), and a /add-medication that       *)
(* appends leaves no archive row of the item's normalized (name, dose,     *)
(* location).                                                              *)

\* the first item the last request submitted, its name without the marker
SubmittedItem ==
    [name |-> stripPlusPlus(last.items[1].name), dose |-> last.items[1].dose,
     location |-> last.items[1].location]

AppendsTo(tables) ==
    \E k \in 1..Len(last.calls) :
        last.calls[k].api = "append" /\ last.calls[k].sheet \in tables

\* a stock table holds the submitted item up to normalization
HeldInStock(sheets) ==
    \E sheet \in StockTables :
        RowsWhere(sheets[sheet],
                  LAMBDA row : ItemKey(sheet, row)
                                 = NormKey(SubmittedItem.name, SubmittedItem.dose,
                                           SubmittedItem.location)) # {}

\* the stash holds the submitted (name, dose) up to normalization
HeldInStash(sheets) ==
    RowsWhere(sheets["Angie Stash"],
              LAMBDA row : /\ Normalize(row[1]) = Normalize(SubmittedItem.name)
                           /\ Normalize(row[2]) = Normalize(SubmittedItem.dose)) # {}

C18_NormalizedEqualityEverywhere ==
    /\ (last.op = "add-medication" /\ ~HasMarker(last.items[1].name)) =>
          /\ HeldInStock(last.run[1]) => ~AppendsTo(StockTables)
          /\ AppendsTo(StockTables) =>
                ArchiveRows(db, SubmittedItem.name, SubmittedItem.dose,
                            SubmittedItem.location) = {}
    /\ (last.op = "quick-add-update" /\ HasMarker(last.items[1].name)) =>
          (HeldInStash(last.run[1]) => ~AppendsTo({"Angie Stash"}))

---------------------------------------------------------------------------
(* C19  Multi-row deletion in a Consume batch: when the tuples of one      *)
(* /update request, each naming the row that holds its item when the       *)
(* request arrives, drive two or more rows of one table to zero, the table *)
(* ends as it was without exactly those rows, and with the new quantity in *)
(* the row of every other tuple of the batch.                              *)

\* the tuples of the request that are processed and address this table
BatchItems(sheet) ==
    {i \in 1..Len(last.items) :
        /\ last.items[i].sheetName = sheet
        /\ OrZero(parseInt(last.items[i].qty)) > 0}

BatchNewQty(i) ==
    OrZero(parseInt(last.items[i].quantity)) - OrZero(parseInt(last.items[i].qty))

\* tuple i names the row that holds its item when the request arrives
IdentifiesRow(i) ==
    LET item == last.items[i]
        rows == last.run[1][item.sheetName]
    IN /\ item.rowIndex \in 2..Len(rows)
       /\ rows[item.rowIndex][1] = item.name
       /\ rows[item.rowIndex][2] = item.dose
       /\ rows[item.rowIndex][Width(item.sheetName)] = item.quantity

\* the table as the request found it, the rows driven to zero removed and
\* the other addressed rows holding their new quantity
BatchExpected(sheet) ==
    LET rows == last.run[1][sheet]
        gone == {last.items[i].rowIndex : i \in {j \in BatchItems(sheet) : BatchNewQty(j) <= 0}}
        kept == SelectSeq([r \in 1..Len(rows) |-> r], LAMBDA r : r \notin gone)
    IN [k \in 1..Len(kept) |->
          IF \E i \in BatchItems(sheet) : last.items[i].rowIndex = kept[k]
          THEN LET i == CHOOSE i \in BatchItems(sheet) : last.items[i].rowIndex = kept[k]
               IN [rows[kept[k]] EXCEPT ![Width(sheet)] = NumText(<<BatchNewQty(i)>>)]
          ELSE rows[kept[k]]]

C19_BatchDeletesIdentifiedRows ==
    last.op = "update" =>
        \A sheet \in ItemTables :
            (/\ \A i \in BatchItems(sheet) : IdentifiesRow(i)
             /\ Cardinality({i \in BatchItems(sheet) : BatchNewQty(i) <= 0}) >= 2)
                => db[sheet] = BatchExpected(sheet)

---------------------------------------------------------------------------
(* C20  Per-item independence in a batch: when a call issued for item i of *)
(* a /update or /quick-add-update batch fails, every later item that is    *)
(* not skipped for its own fields is still processed: the handler issues   *)
(* its calls and runs its pass to the end.                                 *)

\* the handler skips the item for its own fields
BatchSkips(item) ==
    IF last.op = "update" THEN ConsumeSkipped(item)
    ELSE item.name = <<>> \/ item.addQty = <<>> \/ OrZero(parseInt(item.addQty)) <= 0

C20_LaterItemsStillProcessed ==
    last.op \in {"update", "quick-add-update"} =>
        \A i \in 1..Len(last.items) :
            (\E k \in ItemCalls(i) : ~last.calls[k].ok) =>
                \A j \in (i + 1)..Len(last.items) :
                    ~BatchSkips(last.items[j]) => (ItemCalls(j) # {} /\ Finished(j))

---------------------------------------------------------------------------
(* C21  A failed write step skips the later steps of its item: in a        *)
(* Consume to zero whose append to Past Medication fails, no row delete is *)
(* issued for the tuple, so no request removes a row from a stock table    *)
(* without having added its archive row.                                   *)

C21_FailedArchiveSkipsDelete ==
    last.op = "update" =>
        \A k \in 1..Len(last.calls) :
            (/\ last.calls[k].api = "append"
             /\ last.calls[k].sheet = "Past Medication"
             /\ ~last.calls[k].ok)
                => \A m \in ItemCalls(last.calls[k].item) :
                      m > k => last.calls[m].api # "delete"

---------------------------------------------------------------------------
(* C22  The activity log is append-only under interleaving: at every       *)
(* moment the log holds every record it started with and, for every        *)
(* request whose logActivity call has completed, one record of that        *)
(* request, and nothing else but rows not yet written.                     *)

\* how many rows of the log are this record
CountIn(log, record) == Cardinality({r \in 1..Len(log) : log[r] = record})

LogCompleted(p) == LogCallsOf(p) = 3

C22_LogAppendOnlyInterleaved ==
    last.op = "log" =>
        \A record \in LogRecords \cup {last.run[1]["Activity Records"][r] :
                                         r \in 2..Len(last.run[1]["Activity Records"])} :
            CountIn(db["Activity Records"], record)
                = CountIn(last.run[1]["Activity Records"], record)
                  + Cardinality({p \in 1..MaxLoggers :
                                    LogCompleted(p) /\ last.items[p] = record})

---------------------------------------------------------------------------
(* C23  Aliased restock frame: after a typed aliased restock of (name,     *)
(* dose, quantity), when a stash row has that name (without the marker)    *)
(* and dose, the stash is as before except that the quantity of that row   *)
(* has grown by the quantity added; when no row has them, the stash is as  *)
(* before with the one row (name without marker, dose, quantity) appended. *)

StashMatches(stash, item) ==
    {r \in 2..Len(stash) :
        /\ Normalize(stash[r][1]) = Normalize(stripPlusPlus(item.name))
        /\ Normalize(stash[r][2]) = Normalize(item.dose)}

C23_AliasedRestockFrame ==
    (/\ last.op = "quick-add-update"
     /\ HasMarker(last.items[1].name)
     /\ Finished(1)) =>
        LET item == last.items[1]
            pre == last.run[1]["Angie Stash"]
            post == last.run[2]["Angie Stash"]
            added == OrZero(parseInt(item.addQty))
        IN IF StashMatches(pre, item) # {}
           THEN \E r \in StashMatches(pre, item) :
                   post = [pre EXCEPT ![r][3] =
                              NumText(<<OrZero(parseInt(pre[r][3])) + added>>)]
           ELSE post = Append(pre, <<stripPlusPlus(item.name), item.dose, NumText(<<added>>)>>)

---------------------------------------------------------------------------
(* C24  Routing invariant: every data row of Closet Meds has a location    *)
(* that contains "closet" in any letter case, and no data row of File Meds *)
(* has one.                                                                *)

HasKeyword(location) ==
    \E i \in 1..Len(location) :
        i + 5 <= Len(location)
        /\ [k \in 1..6 |-> LowerChar(location[i + k - 1])] = <<"c","l","o","s","e","t">>

C24_RoutingInvariant ==
    /\ \A r \in 2..Len(db["Closet Meds"]) : HasKeyword(db["Closet Meds"][r][3])
    /\ \A r \in 2..Len(db["File Meds"]) : ~HasKeyword(db["File Meds"][r][3])

---------------------------------------------------------------------------
(* C25  Sorted-table invariant: the first row of File Meds and of Closet   *)
(* Meds is the header, and the rows below it are in ascending order of     *)
(* location and, at the same location, of name.                            *)

\* the row r2 has to come before the row r1
OutOfOrder(r1, r2) ==
    IF CellLess(r2[3], r1[3]) THEN TRUE
    ELSE IF CellLess(r1[3], r2[3]) THEN FALSE
    ELSE CellLess(r2[1], r1[1])

C25_SortedTables ==
    \A sheet \in StockTables :
        /\ db[sheet][1] = StockHeader
        /\ \A i, j \in 2..Len(db[sheet]) :
               i < j => ~OutOfOrder(db[sheet][i], db[sheet][j])

\* /add-medication appended a row that is not the last row of its table
C25_Witness ==
    /\ last.op = "add-medication"
    /\ \E sheet \in StockTables :
         /\ AppendsTo({sheet})
         /\ \E r \in 2..(Len(db[sheet]) - 1) :
                /\ db[sheet][r][1] = SubmittedItem.name
                /\ db[sheet][r][3] = SubmittedItem.location

---------------------------------------------------------------------------
(* C26  After a request that appended a row to File Meds or Closet Meds    *)
(* and resorted the table, no row whose location the Location Catalog does *)
(* not list is above a row whose location it lists.                        *)

InCatalog(location) ==
    \E r \in 2..Len(db["Location Catalog"]) :
        toLowerCase(trim(db["Location Catalog"][r][1])) = toLowerCase(trim(location))

C26_UnknownLocationSortsLast ==
    \A sheet \in StockTables :
        AppendsTo({sheet}) =>
            \A i, j \in 2..Len(db[sheet]) :
                (i < j /\ InCatalog(db[sheet][j][3])) => InCatalog(db[sheet][i][3])

---------------------------------------------------------------------------
(* C27  Every /update, /quick-add-update and /add-medication request       *)
(* reaches its res.redirect("/"), whichever of its API calls failed: no    *)
(* request ends with an exception that its handler did not catch.          *)

IsLedgerRequest == last.op \in {"update", "quick-add-update", "add-medication"}

C27_RequestsRedirect == IsLedgerRequest => ~last.exc

---------------------------------------------------------------------------
(* C28  Consume never increases stock: when an item of /update writes a    *)
(* quantity to the row it addresses, the quantity stored in that row after *)
(* the item is not greater than the one stored in it before the item.      *)

\* the quantity stored in a row of an item table
StoredQty(sheets, sheet, row) ==
    OrZero(parseInt(sheets[sheet][row][IF sheet = "Angie Stash" THEN 3 ELSE 4]))

\* item i wrote a quantity to a row that was there before it
WroteQuantity(i) ==
    /\ Finished(i)
    /\ last.items[i].rowIndex <= Len(last.run[i][last.items[i].sheetName])
    /\ \E k \in ItemCalls(i) :
           /\ last.calls[k].api = "update"
           /\ last.calls[k].sheet = last.items[i].sheetName
           /\ last.calls[k].ok

C28_ConsumeNeverIncreases ==
    last.op = "update" =>
        \A i \in 1..Len(last.items) :
            WroteQuantity(i) =>
                StoredQty(last.run[i + 1], last.items[i].sheetName, last.items[i].rowIndex)
                    <= StoredQty(last.run[i], last.items[i].sheetName, last.items[i].rowIndex)

---------------------------------------------------------------------------
(* C29  Archive and stock are disjoint: no normalized (name, dose,         *)
(* location) is both a row of Past Medication and a row of File Meds or   *)
(* Closet Meds.                                                            *)

C29_ArchiveStockDisjoint ==
    \A sheet \in StockTables :
        \A r \in 2..Len(db[sheet]) :
            \A p \in 2..Len(db["Past Medication"]) :
                ItemKey(sheet, db[sheet][r])
                    # NormKey(db["Past Medication"][p][1], db["Past Medication"][p][2],
                              db["Past Medication"][p][3])

---------------------------------------------------------------------------
(* C30  A failed table read never causes a duplicate: when the read of     *)
(* File Meds or Closet Meds fails during /add-medication, the request does *)
(* not append a row to that table for a (name, dose, location) that the    *)
(* table already holds.                                                    *)

ReadFailed(sheet) ==
    \E k \in 1..Len(last.calls) :
        /\ last.calls[k].api = "get"
        /\ last.calls[k].sheet = sheet
        /\ ~last.calls[k].ok

\* the table held the submitted item when the request started
HeldBefore(sheet) ==
    RowsWhere(last.run[1][sheet],
              LAMBDA row : ItemKey(sheet, row)
                             = NormKey(SubmittedItem.name, SubmittedItem.dose,
                                       SubmittedItem.location)) # {}

C30_FailedReadNoDuplicate ==
    last.op = "add-medication" =>
        \A sheet \in StockTables :
            (ReadFailed(sheet) /\ HeldBefore(sheet)) =>
                ~\E k \in 1..Len(last.calls) :
                     /\ last.calls[k].api = "append"
                     /\ last.calls[k].sheet = sheet
                     /\ last.calls[k].ok

=============================================================================
